---------------------------- MODULE Spec2Model ----------------------------
(***************************************************************************)
(* Model of validate_crontab.py: a crontab linter.  Strings are tuples of  *)
(* one-character strings, so that the regular expressions, split(),        *)
(* strip(), the path functions and the message formatting are computed     *)
(* character by character, as the Python code computes them.               *)
(***************************************************************************)
EXTENDS Integers, Sequences, FiniteSets, TLC

VARIABLES
    pc,             \* position of the program: start, open, loop, report, done
    argv,           \* sys.argv[1:], the command-line arguments after the program name
    fileKind,       \* what open(file_path) meets: regular, missing, noperm, dir
    content,        \* the characters of the crontab file (when regular)
    fs,             \* the filesystem: the set of existing absolute paths
    file_path,      \* crontab_file_path
    check_scripts,  \* the --check-scripts flag
    crontab_dir,    \* directory of the crontab file, absolute
    lines,          \* file.readlines()
    line_no,        \* number of the last line the loop has processed
    errors,         \* the accumulated messages
    result,         \* (success, message) returned by validate_crontab_file
    stdout,         \* what was printed: a sequence of strings
    exitCode,       \* the process exit status, -1 while running
    calls,          \* history: the helper calls made, as <<function, line number>>
    probe           \* the single-line pipeline applied to one input line

vars == <<pc, argv, fileKind, content, fs, file_path, check_scripts, crontab_dir,
          lines, line_no, errors, result, stdout, exitCode, calls, probe>>

mainVars == <<pc, argv, fileKind, content, fs, file_path, check_scripts, crontab_dir,
              lines, line_no, errors, result, stdout, exitCode, calls>>

-----------------------------------------------------------------------------
(* Python str primitives *)

\* str.isspace() / the regex class \s, on the characters the model uses
IsSpace(c) == c \in {" ", "\t", "\n"}

Digits == <<"0","1","2","3","4","5","6","7","8","9">>

IsDigit(c) == \E i \in 1..10 : Digits[i] = c

DigitVal(c) == (CHOOSE i \in 1..10 : Digits[i] = c) - 1

\* s[i:] with a 1-based i
Drop(s, i) == SubSeq(s, i, Len(s))

\* s.startswith(p)
StartsWith(s, p) == Len(s) >= Len(p) /\ SubSeq(s, 1, Len(p)) = p

\* s.endswith(p)
EndsWith(s, p) == Len(s) >= Len(p) /\ SubSeq(s, Len(s) - Len(p) + 1, Len(s)) = p

RECURSIVE LStrip(_)
LStrip(s) == IF s # <<>> /\ IsSpace(Head(s)) THEN LStrip(Tail(s)) ELSE s

RECURSIVE RStrip(_)
RStrip(s) == IF s # <<>> /\ IsSpace(s[Len(s)]) THEN RStrip(SubSeq(s, 1, Len(s) - 1)) ELSE s

\* str.strip()
Strip(s) == RStrip(LStrip(s))

\* str.split(): the maximal runs of non-whitespace characters, in order
RECURSIVE SplitFrom(_, _, _)
SplitFrom(s, i, cur) ==
    IF i > Len(s) THEN (IF cur = <<>> THEN <<>> ELSE <<cur>>)
    ELSE IF IsSpace(s[i])
         THEN (IF cur = <<>> THEN <<>> ELSE <<cur>>) \o SplitFrom(s, i + 1, <<>>)
         ELSE SplitFrom(s, i + 1, Append(cur, s[i]))

Split(s) == SplitFrom(s, 1, <<>>)

\* str.split(sep) for a one-character separator: the pieces between the
\* occurrences of sep, empty pieces kept
SplitOn(s, sep) ==
    LET at == {i \in 1..Len(s) : s[i] = sep}
        \* the position of the k-th separator; 0 and Len(s) + 1 close the ends
        cut(k) == IF k = 0 THEN 0
                  ELSE IF k > Cardinality(at) THEN Len(s) + 1
                  ELSE CHOOSE p \in at : Cardinality({q \in at : q < p}) = k - 1
    IN  [k \in 1..(Cardinality(at) + 1) |-> SubSeq(s, cut(k - 1) + 1, cut(k) - 1)]

\* sep.join(parts)
RECURSIVE Join(_, _)
Join(sep, parts) ==
    IF parts = <<>> THEN <<>>
    ELSE IF Len(parts) = 1 THEN parts[1]
    ELSE parts[1] \o sep \o Join(sep, Tail(parts))

\* str(n) for n >= 0, as an f-string formats a line number
RECURSIVE Str(_)
Str(n) == IF n < 10 THEN <<Digits[n + 1]>> ELSE Str(n \div 10) \o <<Digits[(n % 10) + 1]>>

\* file.readlines(): each line keeps its terminating newline
RECURSIVE ReadLinesFrom(_, _, _)
ReadLinesFrom(s, i, cur) ==
    IF i > Len(s) THEN (IF cur = <<>> THEN <<>> ELSE <<cur>>)
    ELSE IF s[i] = "\n"
         THEN <<Append(cur, "\n")>> \o ReadLinesFrom(s, i + 1, <<>>)
         ELSE ReadLinesFrom(s, i + 1, Append(cur, s[i]))

ReadLines(s) == ReadLinesFrom(s, 1, <<>>)

\* needle in haystack (substring)
Contains(hay, needle) ==
    \E i \in 1..(Len(hay) - Len(needle) + 1) : SubSeq(hay, i, i + Len(needle) - 1) = needle

-----------------------------------------------------------------------------
(* validate_crontab_line: the two regular expressions.  A sub-pattern is   *)
(* the set of positions at which a match starting at position i can end,   *)
(* so that re.match's backtracking is the existence of a path.             *)

\* a literal character c at position i
Lit(s, i, c) == IF i <= Len(s) /\ s[i] = c THEN {i + 1} ELSE {}

\* the character class [lo-hi] of digits at position i
Cls(s, i, lo, hi) ==
    IF i <= Len(s) /\ IsDigit(s[i]) /\ DigitVal(s[i]) \in lo..hi THEN {i + 1} ELSE {}

\* \s+ from position i
Spaces(s, i) == {j \in (i + 1)..(Len(s) + 1) : \A k \in i..(j - 1) : IsSpace(s[k])}

\* .+$ from position i: "." is any character but a newline, "$" is the end
\* of the string or the position before a final newline
DotPlusEnd(s, i) ==
    \E j \in (i + 1)..(Len(s) + 1) :
        /\ \A k \in i..(j - 1) : s[k] # "\n"
        /\ \/ j = Len(s) + 1
           \/ j = Len(s) /\ s[Len(s)] = "\n"

\* (\*|([0-9]|[1-5][0-9]))
MinuteField(s, i) ==
    Lit(s, i, "*") \cup Cls(s, i, 0, 9) \cup UNION {Cls(s, j, 0, 9) : j \in Cls(s, i, 1, 5)}

\* (\*|([0-9]|[1-5][0-9])), the second group of cron_regex
HourField(s, i) ==
    Lit(s, i, "*") \cup Cls(s, i, 0, 9) \cup UNION {Cls(s, j, 0, 9) : j \in Cls(s, i, 1, 5)}

\* (\*|([1-9]|[1-2][0-9]|3[0-1]))
DayField(s, i) ==
    Lit(s, i, "*") \cup Cls(s, i, 1, 9)
        \cup UNION {Cls(s, j, 0, 9) : j \in Cls(s, i, 1, 2)}
        \cup UNION {Cls(s, j, 0, 1) : j \in Lit(s, i, "3")}

\* (\*|(1[0-2]|[1-9]))
MonthField(s, i) ==
    Lit(s, i, "*") \cup UNION {Cls(s, j, 0, 2) : j \in Lit(s, i, "1")} \cup Cls(s, i, 1, 9)

\* (\*|([0-6]))
WeekdayField(s, i) == Lit(s, i, "*") \cup Cls(s, i, 0, 6)

\* the positions reached after \s+ from any position of P
ThenSpaces(s, P) == UNION {Spaces(s, j) : j \in P}

\* cron_regex
CronRegex(s) ==
    LET p1 == ThenSpaces(s, MinuteField(s, 1))
        p2 == ThenSpaces(s, UNION {HourField(s, j) : j \in p1})
        p3 == ThenSpaces(s, UNION {DayField(s, j) : j \in p2})
        p4 == ThenSpaces(s, UNION {MonthField(s, j) : j \in p3})
        p5 == ThenSpaces(s, UNION {WeekdayField(s, j) : j \in p4})
    IN  \E p \in p5 : DotPlusEnd(s, p)

\* (reboot|hourly|daily|weekly|monthly|yearly|annually)
Keywords == {<<"r","e","b","o","o","t">>, <<"h","o","u","r","l","y">>, <<"d","a","i","l","y">>, <<"w","e","e","k","l","y">>, <<"m","o","n","t","h","l","y">>, <<"y","e","a","r","l","y">>,
             <<"a","n","n","u","a","l","l","y">>}

\* the word w at position i
Word(s, i, w) ==
    IF i + Len(w) - 1 <= Len(s) /\ SubSeq(s, i, i + Len(w) - 1) = w THEN {i + Len(w)} ELSE {}

\* special_syntax_regex
SpecialSyntaxRegex(s) ==
    LET p0 == Lit(s, 1, "@")
        p1 == UNION {Word(s, j, w) : j \in p0, w \in Keywords}
        p2 == ThenSpaces(s, p1)
    IN  \E p \in p2 : DotPlusEnd(s, p)

validate_crontab_line(line) == CronRegex(line) \/ SpecialSyntaxRegex(line)

\* parts[k:]
PartsFrom(parts, k) == SubSeq(parts, k + 1, Len(parts))

\* a faulty variant of extract_command: the standard form skips six parts
extract_command_skip6(line) ==
    LET parts == Split(line)
    IN  IF StartsWith(line, <<"@">>)
        THEN Join(<<" ">>, PartsFrom(parts, 1))
        ELSE Join(<<" ">>, PartsFrom(parts, 6))

extract_command(line) ==
    LET parts == Split(line)
    IN  IF StartsWith(line, <<"@">>)
        THEN Join(<<" ">>, PartsFrom(parts, 1))
        ELSE Join(<<" ">>, PartsFrom(parts, 5))

-----------------------------------------------------------------------------
(* os.path (POSIX) and shutil.which, as the program calls them *)

\* the process's working directory and the directories of $PATH
Cwd == <<"/","w">>

PathDirs == <<<<"/","b","i","n">>>>

\* os.path.isabs
IsAbs(p) == StartsWith(p, <<"/">>)

\* os.path.join(a, b)
PathJoin(a, b) ==
    IF IsAbs(b) THEN b
    ELSE IF a = <<>> \/ EndsWith(a, <<"/">>) THEN a \o b
    ELSE a \o <<"/">> \o b

\* the component loop of os.path.normpath
RECURSIVE NormComps(_, _, _)
NormComps(comps, acc, rooted) ==
    IF comps = <<>> THEN acc
    ELSE LET comp == Head(comps)
         IN  IF comp = <<>> \/ comp = <<".">>
             THEN NormComps(Tail(comps), acc, rooted)
             ELSE IF \/ comp # <<".", ".">>
                     \/ (~rooted /\ acc = <<>>)
                     \/ (acc # <<>> /\ acc[Len(acc)] = <<".", ".">>)
                  THEN NormComps(Tail(comps), Append(acc, comp), rooted)
                  ELSE IF acc # <<>>
                       THEN NormComps(Tail(comps), SubSeq(acc, 1, Len(acc) - 1), rooted)
                       ELSE NormComps(Tail(comps), acc, rooted)

\* os.path.normpath
NormPath(p) ==
    IF p = <<>> THEN <<".">>
    ELSE LET slashes == IF ~IsAbs(p) THEN 0
                        ELSE IF StartsWith(p, <<"/", "/">>) /\ ~StartsWith(p, <<"/", "/", "/">>)
                             THEN 2 ELSE 1
             body == Join(<<"/">>, NormComps(SplitOn(p, "/"), <<>>, slashes > 0))
             out == [i \in 1..slashes |-> "/"] \o body
         IN  IF out = <<>> THEN <<".">> ELSE out

\* os.path.abspath
AbsPath(p) == IF IsAbs(p) THEN NormPath(p) ELSE NormPath(PathJoin(Cwd, p))

RECURSIVE RStripSlash(_)
RStripSlash(s) ==
    IF s # <<>> /\ s[Len(s)] = "/" THEN RStripSlash(SubSeq(s, 1, Len(s) - 1)) ELSE s

\* os.path.dirname
DirName(p) ==
    LET cut == IF \E i \in 1..Len(p) : p[i] = "/"
               THEN CHOOSE i \in 1..Len(p) : p[i] = "/" /\ \A k \in (i + 1)..Len(p) : p[k] # "/"
               ELSE 0
        head == SubSeq(p, 1, cut)
    IN  IF head # <<>> /\ \E i \in 1..Len(head) : head[i] # "/" THEN RStripSlash(head) ELSE head

\* os.path.exists(p) on filesystem f: the kernel resolves p from the working directory
Exists(f, p) == AbsPath(p) \in f

\* the files that carry the execute permission, where they exist
ExecutableFiles == {<<"/","b","i","n","/","t","r","u","e">>, <<"/","b","i","n","/","e","c","h","o">>, <<"/","w","/","r","u","n",".","s","h">>}

\* os.path.exists(p) and os.access(p, os.X_OK) and not os.path.isdir(p)
IsExecutable(f, p) == AbsPath(p) \in f /\ AbsPath(p) \in ExecutableFiles

\* shutil.which(cmd) is not None: a name with a directory part is tried as a
\* path, any other name is looked up in the directories of $PATH
Which(f, cmd) ==
    IF DirName(cmd) # <<>>
    THEN IsExecutable(f, cmd)
    ELSE \E i \in 1..Len(PathDirs) : IsExecutable(f, PathJoin(PathDirs[i], cmd))

is_unix_command(f, command) == Which(f, Split(command)[1])

resolve_path(script_path, dir) ==
    IF ~IsAbs(script_path) THEN NormPath(PathJoin(dir, script_path)) ELSE script_path

-----------------------------------------------------------------------------
(* The messages, formatted as the f-strings format them *)

SyntaxPrefix == <<"S","y","n","t","a","x"," ","e","r","r","o","r"," ","o","n"," ","l","i","n","e"," ">>

MissingPrefix == <<"N","o","n","-","e","x","i","s","t","i","n","g"," ","s","c","r","i","p","t"," ","o","r"," ","i","n","v","a","l","i","d"," ","c","o","m","m","a","n","d"," ","o","n"," ","l","i","n","e"," ">>

RecPrefix == <<"R","e","c","o","m","m","e","n","d","a","t","i","o","n",":"," ","U","s","e"," ","a","b","s","o","l","u","t","e"," ","f","i","l","e"," ","p","a","t","h","s"," ","t","o"," ","a","v","o","i","d"," ","a","m","b","i","g","u","i","t","y","."," ","R","e","p","l","a","c","e"," ","'">>

\* a faulty variant of SyntaxMsg: the line number counted from 0
SyntaxMsgFromZero(n, line) == SyntaxPrefix \o Str(n - 1) \o <<":"," ">> \o line

SyntaxMsg(n, line) == SyntaxPrefix \o Str(n) \o <<":"," ">> \o line

MissingMsg(n, script_path, resolved_path) ==
    MissingPrefix \o Str(n) \o <<":"," ">> \o script_path \o <<" ","(","r","e","s","o","l","v","e","d"," ","p","a","t","h",":"," ">>
        \o resolved_path \o <<")">>

RecMsg(n, script_path, absolute_recommendation) ==
    RecPrefix \o script_path \o <<"'"," ","w","i","t","h"," ","'">> \o absolute_recommendation
        \o <<"'"," ","o","n"," ","l","i","n","e"," ">> \o Str(n) \o <<".">>

NotFoundMsg(p) == <<"E","r","r","o","r",":"," ","F","i","l","e"," ","'">> \o p \o <<"'"," ","n","o","t"," ","f","o","u","n","d",".">>

DeniedMsg(p) == <<"E","r","r","o","r",":"," ","P","e","r","m","i","s","s","i","o","n"," ","d","e","n","i","e","d"," ","f","o","r"," ","f","i","l","e"," ","'">> \o p \o <<"'",".">>

ValidMsg == <<"T","h","e"," ","c","r","o","n","t","a","b"," ","f","i","l","e"," ","i","s"," ","v","a","l","i","d",".">>

MissingArgMsg == <<"E","r","r","o","r",":"," ","M","i","s","s","i","n","g"," ","r","e","q","u","i","r","e","d"," ","<","c","r","o","n","t","a","b","_","f","i","l","e","_","p","a","t","h",">"," ","a","r","g","u","m","e","n","t",".","\n">>

UsageMsg == <<"\n","U","s","a","g","e",":"," ","p","y","t","h","o","n"," ","v","a","l","i","d","a","t","e","_","c","r","o","n","t","a","b",".","p","y"," ","<","c","r","o","n","t","a","b","_","f","i","l","e","_","p","a","t","h",">"," ","[","-","-","c","h","e","c","k","-","s","c","r","i","p","t","s","]"," ","[","-","-","h","e","l","p","]","\n","\n","A","r","g","u","m","e","n","t","s",":","\n"," "," ","<","c","r","o","n","t","a","b","_","f","i","l","e","_","p","a","t","h",">"," "," "," ","P","a","t","h"," ","t","o"," ","t","h","e"," ","c","r","o","n","t","a","b"," ","f","i","l","e"," ","t","o"," ","v","a","l","i","d","a","t","e",".","\n"," "," ","-","-","c","h","e","c","k","-","s","c","r","i","p","t","s"," "," "," "," "," "," "," ","E","n","a","b","l","e"," ","c","h","e","c","k","i","n","g"," ","i","f"," ","s","c","r","i","p","t","s"," ","e","x","i","s","t"," ","o","r"," ","c","o","m","m","a","n","d","s"," ","a","r","e"," ","v","a","l","i","d"," ","U","n","i","x","/","L","i","n","u","x"," ","c","o","m","m","a","n","d","s",".","\n"," "," ","-","-","h","e","l","p"," "," "," "," "," "," "," "," "," "," "," "," "," "," "," "," ","S","h","o","w"," ","t","h","i","s"," ","h","e","l","p"," ","m","e","s","s","a","g","e"," ","a","n","d"," ","e","x","i","t",".","\n">>

HelpFlag == <<"-","-","h","e","l","p">>

CheckFlag == <<"-","-","c","h","e","c","k","-","s","c","r","i","p","t","s">>

\* print(text): the text and a newline on standard output
PrintLine(out, text) == out \o text \o <<"\n">>

\* x in sys.argv
InArgv(a, x) == \E i \in 1..Len(a) : a[i] = x

-----------------------------------------------------------------------------
(* validate_crontab_file: one iteration of the loop over the lines *)

\* the line is skipped: blank or a comment
IsSkipped(line) == line = <<>> \/ StartsWith(line, <<"#">>)

\* script_path = command.split()[0] raises IndexError on a command without tokens
FirstTokenRaises(command) == Split(command) = <<>>

\* a faulty variant of MissingPart: "or" for "and" in line 89
MissingPartEither(f, n, script_path, resolved_path) ==
    LET script_exists == Exists(f, resolved_path)
        is_valid_command == IF ~script_exists THEN is_unix_command(f, script_path) ELSE FALSE
    IN  IF ~script_exists \/ ~is_valid_command
        THEN <<MissingMsg(n, script_path, resolved_path)>>
        ELSE <<>>

\* lines 86-90: the error for a script that does not exist and is no command
MissingPart(f, n, script_path, resolved_path) ==
    LET script_exists == Exists(f, resolved_path)
        is_valid_command == IF ~script_exists THEN is_unix_command(f, script_path) ELSE FALSE
    IN  IF ~script_exists /\ ~is_valid_command
        THEN <<MissingMsg(n, script_path, resolved_path)>>
        ELSE <<>>

\* a faulty variant of RecPart: the recommendation without the test of line 93
RecPartAlways(n, script_path, resolved_path) ==
    <<RecMsg(n, script_path, AbsPath(resolved_path))>>

\* lines 93-98: the recommendation for a relative path
RecPart(n, script_path, resolved_path) ==
    IF ~IsAbs(script_path)
    THEN <<RecMsg(n, script_path, AbsPath(resolved_path))>>
    ELSE <<>>

\* a faulty variant of CheckMessages: the recommendation before the error
CheckMessagesRecFirst(f, dir, n, line) ==
    LET command == extract_command(line)
        script_path == Split(command)[1]
        resolved_path == resolve_path(script_path, dir)
    IN  RecPart(n, script_path, resolved_path) \o MissingPart(f, n, script_path, resolved_path)

\* a faulty variant of CheckMessages: "elif" for "if" in line 93, so that the
\* recommendation is left out when the error was reported
CheckMessagesElif(f, dir, n, line) ==
    LET command == extract_command(line)
        script_path == Split(command)[1]
        resolved_path == resolve_path(script_path, dir)
        missing == MissingPart(f, n, script_path, resolved_path)
    IN  IF missing # <<>> THEN missing ELSE RecPart(n, script_path, resolved_path)

\* lines 78-98: the messages line n adds when script checking is enabled
CheckMessages(f, dir, n, line) ==
    LET command == extract_command(line)
        script_path == Split(command)[1]
        resolved_path == resolve_path(script_path, dir)
    IN  MissingPart(f, n, script_path, resolved_path) \o RecPart(n, script_path, resolved_path)

\* lines 78-86: the helper calls line n makes when script checking is enabled
CheckCalls(f, dir, n, line) ==
    LET script_path == Split(extract_command(line))[1]
        resolved_path == resolve_path(script_path, dir)
    IN  {<<"extract_command", n>>, <<"resolve_path", n>>, <<"exists", n>>}
            \cup (IF ~Exists(f, resolved_path) THEN {<<"is_unix_command", n>>} ELSE {})

\* a faulty variant of FinalResult: the first message is left out of the join
FinalResultSkipsFirst(errs) ==
    IF errs # <<>>
    THEN [success |-> FALSE, message |-> Join(<<"\n">>, Tail(errs))]
    ELSE [success |-> TRUE, message |-> ValidMsg]

\* lines 100-103: the value validate_crontab_file returns after the loop
FinalResult(errs) ==
    IF errs # <<>>
    THEN [success |-> FALSE, message |-> Join(<<"\n">>, errs)]
    ELSE [success |-> TRUE, message |-> ValidMsg]

\* lines 138-141: the exit status for a returned result
ExitStatus(success) == IF ~success THEN 3 ELSE 0

NoResult == [success |-> FALSE, message |-> <<>>]

-----------------------------------------------------------------------------
(* Inputs *)

\* the most lines a crontab file of the model holds
MaxLines == 2

\* the lines a crontab file is made of (without the newline)
FileLines == {
    <<"*"," ","*"," ","*"," ","*"," ","*"," ","/","b","i","n","/","t","r","u","e">>,
    <<"@","d","a","i","l","y"," ","/","n","o","n","e","x","i","s","t","e","n","t","/","s","c","r","i","p","t",".","s","h">>,
    <<"9","9"," ","*"," ","*"," ","*"," ","*"," ","e","c","h","o"," ","h","i">>,
    <<"#"," ","m"," ","h"," ","d","o","m"," ","m","o","n"," ","d","o","w"," ","c","o","m","m","a","n","d">>,
    <<>>,
    <<"0"," ","5"," ","*"," ","*"," ","1"," ","e","c","h","o"," ","h","i">>,
    <<"@","r","e","b","o","o","t"," ","r","u","n",".","s","h">>,
    <<"\t","@","h","o","u","r","l","y"," ",".","/","r","u","n",".","s","h"," ","-","v"," ">> }

Files == UNION {[1..n -> FileLines] : n \in 0..MaxLines}

\* the characters of a file: every line ends with a newline
RECURSIVE FileText(_)
FileText(ls) == IF ls = <<>> THEN <<>> ELSE Head(ls) \o <<"\n">> \o FileText(Tail(ls))

PathInputs == {<<"c","t">>, <<"/","d","/","c","t">>}

ArgvInputs ==
    {<<>>, <<HelpFlag>>, <<CheckFlag>>}
        \cup {<<p>> : p \in PathInputs}
        \cup {<<p, CheckFlag>> : p \in PathInputs}
        \cup {<<CheckFlag, p>> : p \in PathInputs}
        \cup {<<p, HelpFlag>> : p \in PathInputs}

FileKinds == {"regular", "missing", "noperm", "dir"}

\* the filesystem always holds /bin/true, and any of these
FsOptional == {<<"/","b","i","n","/","e","c","h","o">>, <<"/","d","/","r","u","n",".","s","h">>, <<"/","d","/","e","c","h","o">>, <<"/","w","/","r","u","n",".","s","h">>}

FsBase == {<<"/","b","i","n","/","t","r","u","e">>}

NoProbe == [stage |-> "off", raw |-> <<>>, line |-> <<>>, valid |-> FALSE,
            command |-> <<>>, token |-> <<>>, raised |-> FALSE]

\* the files of at most one line
ShortFiles == UNION {[1..n -> FileLines] : n \in 0..1}

\* the program starts with its arguments and its environment; a run that
\* opens no file, or checks no script, does not depend on them, and a file
\* that is named like the flag is a short one
Init ==
    /\ pc = "start"
    /\ argv \in ArgvInputs
    /\ fileKind \in FileKinds
    /\ content \in {FileText(f) : f \in Files}
    /\ fs \in {FsBase \cup s : s \in SUBSET FsOptional}
    /\ (fileKind # "regular" => content = <<>>)
    /\ (argv # <<>> /\ argv[1] = CheckFlag => content \in {FileText(f) : f \in ShortFiles})
    /\ (InArgv(argv, HelpFlag) \/ argv = <<>> => fileKind = "missing")
    /\ (~InArgv(argv, CheckFlag) \/ fileKind # "regular" => fs = FsBase)
    /\ file_path = <<>>
    /\ check_scripts = FALSE
    /\ crontab_dir = <<>>
    /\ lines = <<>>
    /\ line_no = 0
    /\ errors = <<>>
    /\ result = NoResult
    /\ stdout = <<>>
    /\ exitCode = -1
    /\ calls = {}
    /\ probe = NoProbe

-----------------------------------------------------------------------------
(* __main__, lines 120-141 *)

\* lines 122-123: --help anywhere prints the usage and exits with 0
Help ==
    /\ pc = "start"
    /\ InArgv(argv, HelpFlag)
    /\ stdout' = PrintLine(stdout, UsageMsg)
    /\ exitCode' = 0
    /\ pc' = "done"
    /\ UNCHANGED <<argv, fileKind, content, fs, file_path, check_scripts, crontab_dir,
                   lines, line_no, errors, result, calls, probe>>

\* lines 125-127: len(sys.argv) < 2
MissingArg ==
    /\ pc = "start"
    /\ ~InArgv(argv, HelpFlag)
    /\ Len(argv) + 1 < 2
    /\ stdout' = PrintLine(stdout, MissingArgMsg)
    /\ exitCode' = 2
    /\ pc' = "done"
    /\ UNCHANGED <<argv, fileKind, content, fs, file_path, check_scripts, crontab_dir,
                   lines, line_no, errors, result, calls, probe>>

\* lines 130-134: the first argument is the path, whatever it is
ParseArgs ==
    /\ pc = "start"
    /\ ~InArgv(argv, HelpFlag)
    /\ ~(Len(argv) + 1 < 2)
    /\ file_path' = argv[1]
    /\ check_scripts' = InArgv(argv, CheckFlag)
    /\ pc' = "open"
    /\ UNCHANGED <<argv, fileKind, content, fs, crontab_dir, lines, line_no, errors,
                   result, stdout, exitCode, calls, probe>>

(* validate_crontab_file, lines 54-103 *)

\* lines 59-60
OpenNotFound ==
    /\ pc = "open"
    /\ fileKind = "missing"
    /\ crontab_dir' = DirName(AbsPath(file_path))
    /\ result' = [success |-> FALSE, message |-> NotFoundMsg(file_path)]
    /\ pc' = "report"
    /\ UNCHANGED <<argv, fileKind, content, fs, file_path, check_scripts, lines, line_no,
                   errors, stdout, exitCode, calls, probe>>

\* lines 61-62
OpenDenied ==
    /\ pc = "open"
    /\ fileKind = "noperm"
    /\ crontab_dir' = DirName(AbsPath(file_path))
    /\ result' = [success |-> FALSE, message |-> DeniedMsg(file_path)]
    /\ pc' = "report"
    /\ UNCHANGED <<argv, fileKind, content, fs, file_path, check_scripts, lines, line_no,
                   errors, stdout, exitCode, calls, probe>>

\* line 57 on a directory: open raises IsADirectoryError, which no except
\* clause catches; the interpreter prints the traceback and exits with 1
OpenRaises ==
    /\ pc = "open"
    /\ fileKind = "dir"
    /\ crontab_dir' = DirName(AbsPath(file_path))
    /\ exitCode' = 1
    /\ pc' = "done"
    /\ UNCHANGED <<argv, fileKind, content, fs, file_path, check_scripts, lines, line_no,
                   errors, result, stdout, calls, probe>>

\* lines 57-58 and 64
OpenOk ==
    /\ pc = "open"
    /\ fileKind = "regular"
    /\ crontab_dir' = DirName(AbsPath(file_path))
    /\ lines' = ReadLines(content)
    /\ errors' = <<>>
    /\ line_no' = 0
    /\ pc' = "loop"
    /\ UNCHANGED <<argv, fileKind, content, fs, file_path, check_scripts, result, stdout,
                   exitCode, calls, probe>>

\* lines 66-69: a blank line or a comment
SkipLine ==
    /\ pc = "loop"
    /\ line_no < Len(lines)
    /\ IsSkipped(Strip(lines[line_no + 1]))
    /\ line_no' = line_no + 1
    /\ UNCHANGED <<pc, argv, fileKind, content, fs, file_path, check_scripts, crontab_dir,
                   lines, errors, result, stdout, exitCode, calls, probe>>

\* lines 72-74: a line the syntax check rejects
SyntaxError ==
    /\ pc = "loop"
    /\ line_no < Len(lines)
    /\ LET line == Strip(lines[line_no + 1])
       IN  /\ ~IsSkipped(line)
           /\ ~validate_crontab_line(line)
           /\ errors' = Append(errors, SyntaxMsg(line_no + 1, line))
    /\ line_no' = line_no + 1
    /\ UNCHANGED <<pc, argv, fileKind, content, fs, file_path, check_scripts, crontab_dir,
                   lines, result, stdout, exitCode, calls, probe>>

\* line 77 with check_scripts false
PassLine ==
    /\ pc = "loop"
    /\ line_no < Len(lines)
    /\ LET line == Strip(lines[line_no + 1])
       IN  ~IsSkipped(line) /\ validate_crontab_line(line)
    /\ ~check_scripts
    /\ line_no' = line_no + 1
    /\ UNCHANGED <<pc, argv, fileKind, content, fs, file_path, check_scripts, crontab_dir,
                   lines, errors, result, stdout, exitCode, calls, probe>>

\* lines 77-98; an IndexError at line 79 is caught nowhere
CheckLine ==
    /\ pc = "loop"
    /\ line_no < Len(lines)
    /\ check_scripts
    /\ LET line == Strip(lines[line_no + 1])
       IN  /\ ~IsSkipped(line)
           /\ validate_crontab_line(line)
           /\ IF FirstTokenRaises(extract_command(line))
              THEN /\ pc' = "done"
                   /\ exitCode' = 1
                   /\ calls' = calls \cup {<<"extract_command", line_no + 1>>}
                   /\ UNCHANGED <<errors, line_no>>
              ELSE /\ errors' = errors \o CheckMessages(fs, crontab_dir, line_no + 1, line)
                   /\ calls' = calls \cup CheckCalls(fs, crontab_dir, line_no + 1, line)
                   /\ line_no' = line_no + 1
                   /\ UNCHANGED <<pc, exitCode>>
    /\ UNCHANGED <<argv, fileKind, content, fs, file_path, check_scripts, crontab_dir,
                   lines, result, stdout, probe>>

\* lines 100-103
Finish ==
    /\ pc = "loop"
    /\ line_no = Len(lines)
    /\ result' = FinalResult(errors)
    /\ pc' = "report"
    /\ UNCHANGED <<argv, fileKind, content, fs, file_path, check_scripts, crontab_dir,
                   lines, line_no, errors, stdout, exitCode, calls, probe>>

\* lines 137-141
Report ==
    /\ pc = "report"
    /\ stdout' = PrintLine(stdout, result.message)
    /\ exitCode' = ExitStatus(result.success)
    /\ pc' = "done"
    /\ UNCHANGED <<argv, fileKind, content, fs, file_path, check_scripts, crontab_dir,
                   lines, line_no, errors, result, calls, probe>>

Next ==
    \/ Help
    \/ MissingArg
    \/ ParseArgs
    \/ OpenNotFound
    \/ OpenDenied
    \/ OpenRaises
    \/ OpenOk
    \/ SkipLine
    \/ SyntaxError
    \/ PassLine
    \/ CheckLine
    \/ Finish
    \/ Report

Spec == Init /\ [][Next]_vars

-----------------------------------------------------------------------------
(* The single-line pipeline on its own: strip, validate_crontab_line,      *)
(* extract_command and the first-token lookup, applied to one raw line.    *)

\* the most command tokens a line of the single-line inputs carries
MaxArgs == 2

MinuteToks == {<<"*">>, <<"0">>, <<"5","9">>, <<"6","0">>, <<"0","5">>}

HourToks == {<<"*">>, <<"2","4">>, <<"6","0">>}

DayToks == {<<"*">>, <<"0">>, <<"3","1">>, <<"3","2">>}

MonthToks == {<<"*">>, <<"1","2">>, <<"1","3">>}

WeekdayToks == {<<"*">>, <<"6">>, <<"7">>}

\* schedule fields: five, or the first four or three of them
FieldSeqs ==
    LET five == {<<m, h, d, mo, w>> : m \in MinuteToks, h \in HourToks, d \in DayToks,
                                      mo \in MonthToks, w \in WeekdayToks}
    IN  five \cup {SubSeq(t, 1, 4) : t \in five} \cup {SubSeq(t, 1, 3) : t \in five}

\* @-words: the keywords, and three that are none
AtWords == {<<"@">> \o w : w \in Keywords \cup {<<"d","a","i","l","y","x">>, <<"n","o","o","n">>, <<>>}}

ArgToks == <<<<"r","u","n",".","s","h">>, <<"-","v">>, <<"6">>>>

\* the commands: the first k of the argument tokens
Commands == {SubSeq(ArgToks, 1, k) : k \in 0..(IF MaxArgs < Len(ArgToks) THEN MaxArgs ELSE Len(ArgToks))}

Separators == {<<" ">>, <<"\t", " ">>}

Paddings == {<<>>, <<" ">>}

\* the raw lines: tokens joined by a separator, padded, ended by a newline
ProbeLines ==
    {pad \o Join(sep, sched \o cmd) \o pad \o <<"\n">> :
        sched \in FieldSeqs \cup {<<w>> : w \in AtWords}, cmd \in Commands,
        sep \in Separators, pad \in Paddings}

InitLine ==
    /\ pc = "idle"
    /\ argv = <<>>
    /\ fileKind = "missing"
    /\ content = <<>>
    /\ fs = FsBase
    /\ file_path = <<>>
    /\ check_scripts = FALSE
    /\ crontab_dir = <<>>
    /\ lines = <<>>
    /\ line_no = 0
    /\ errors = <<>>
    /\ result = NoResult
    /\ stdout = <<>>
    /\ exitCode = -1
    /\ calls = {}
    /\ \E raw \in ProbeLines : probe = [NoProbe EXCEPT !.stage = "raw", !.raw = raw]

\* line 66
Trim ==
    /\ probe.stage = "raw"
    /\ probe' = [probe EXCEPT !.stage = "trimmed", !.line = Strip(probe.raw)]
    /\ UNCHANGED mainVars

\* lines 68-72: the syntax check, on a line that is not skipped
Validate ==
    /\ probe.stage = "trimmed"
    /\ ~IsSkipped(probe.line)
    /\ probe' = [probe EXCEPT !.stage = "validated",
                              !.valid = validate_crontab_line(probe.line)]
    /\ UNCHANGED mainVars

\* line 78, behind the gate of line 72
Extract ==
    /\ probe.stage = "validated"
    /\ probe.valid
    /\ probe' = [probe EXCEPT !.stage = "extracted",
                              !.command = extract_command(probe.line)]
    /\ UNCHANGED mainVars

\* line 79
FirstToken ==
    /\ probe.stage = "extracted"
    /\ probe' = IF FirstTokenRaises(probe.command)
                THEN [probe EXCEPT !.stage = "token", !.raised = TRUE]
                ELSE [probe EXCEPT !.stage = "token", !.token = Split(probe.command)[1]]
    /\ UNCHANGED mainVars

NextLine ==
    \/ Trim
    \/ Validate
    \/ Extract
    \/ FirstToken

SpecLine == InitLine /\ [][NextLine]_vars

-----------------------------------------------------------------------------
(* Reading the messages back: what a reader of the report sees *)

\* the number a string of digits denotes
RECURSIVE NatOf(_)
NatOf(ds) ==
    IF ds = <<>> THEN 0 ELSE NatOf(SubSeq(ds, 1, Len(ds) - 1)) * 10 + DigitVal(ds[Len(ds)])

\* the longest run of digits that starts s
RECURSIVE LeadingDigits(_)
LeadingDigits(s) ==
    IF s # <<>> /\ IsDigit(Head(s)) THEN <<Head(s)>> \o LeadingDigits(Tail(s)) ELSE <<>>

\* the longest run of digits that ends s
RECURSIVE TrailingDigits(_)
TrailingDigits(s) ==
    IF s # <<>> /\ IsDigit(s[Len(s)])
    THEN Append(TrailingDigits(SubSeq(s, 1, Len(s) - 1)), s[Len(s)])
    ELSE <<>>

MsgKind(m) ==
    IF StartsWith(m, SyntaxPrefix) THEN "syntax"
    ELSE IF StartsWith(m, MissingPrefix) THEN "missing"
    ELSE IF StartsWith(m, <<"R","e","c","o","m","m","e","n","d","a","t","i","o","n",":">>) THEN "recommendation"
    ELSE "other"

\* the line number a message carries: after "on line " at its start (an
\* error), or before the final full stop (a recommendation)
MsgLine(m) ==
    IF MsgKind(m) = "syntax" THEN NatOf(LeadingDigits(Drop(m, Len(SyntaxPrefix) + 1)))
    ELSE IF MsgKind(m) = "missing" THEN NatOf(LeadingDigits(Drop(m, Len(MissingPrefix) + 1)))
    ELSE IF MsgKind(m) = "recommendation" /\ EndsWith(m, <<".">>)
         THEN NatOf(TrailingDigits(SubSeq(m, 1, Len(m) - 1)))
    ELSE 0

\* the positions of the accumulated messages that carry line number n
MsgsOf(n) == {i \in 1..Len(errors) : MsgLine(errors[i]) = n}

\* the positions of the messages of kind k for line n
MsgsOfKind(n, k) == {i \in MsgsOf(n) : MsgKind(errors[i]) = k}

\* the trimmed text of physical line n
Trimmed(n) == Strip(lines[n])

\* the lines the loop has dealt with that are neither blank nor comments
Handled == {n \in 1..line_no : ~IsSkipped(Trimmed(n))}

\* the command token of a line of the grammar: the token after the schedule
CommandToken(line) ==
    LET toks == Split(line) IN IF StartsWith(line, <<"@">>) THEN toks[2] ELSE toks[6]

\* the lines dealt with that passed the syntax check with script checking on
Checked == {n \in Handled : check_scripts /\ validate_crontab_line(Trimmed(n))}

\* the arguments hold no --help and no file path, only optional flags
NoPathArgument == \A i \in 1..Len(argv) : argv[i] = CheckFlag

HelpGiven == InArgv(argv, HelpFlag)

-----------------------------------------------------------------------------
(* Claims *)

\* C1: every run ends with exit code 0, 2 or 3: 0 exactly when --help was
\* given or the file validated successfully, 2 on a usage error (no file
\* path among the arguments), 3 on every validation failure, a file that
\* cannot be found, opened or read included.
C1_ExitCodeContract ==
    pc = "done" =>
        /\ exitCode \in {0, 2, 3}
        /\ (exitCode = 0 <=> (HelpGiven \/ result.success))
        /\ (~HelpGiven /\ NoPathArgument => exitCode = 2)
        /\ (~HelpGiven /\ ~NoPathArgument /\ ~result.success => exitCode = 3)

\* C2: an argument list without --help and without a file path, whatever
\* flags it holds, prints the missing-argument error, exits with 2 and
\* validates no file.
C2_MissingPathIsUsageError ==
    (~HelpGiven /\ NoPathArgument /\ pc # "start") =>
        /\ pc = "done"
        /\ exitCode = 2
        /\ stdout = PrintLine(<<>>, MissingArgMsg)
        /\ file_path = <<>>

\* the scenario of C3: a file named on the command line, script checking on, the file is the one line
\* "@daily /nonexistent/script.sh", and the program has ended
DailyScenario ==
    /\ file_path \in PathInputs
    /\ check_scripts
    /\ fileKind = "regular"
    /\ content = FileText(<<<<"@","d","a","i","l","y"," ","/","n","o","n","e","x","i","s","t","e","n","t","/","s","c","r","i","p","t",".","s","h">>>>)
    /\ pc = "done"

MissingLine1Text == <<"N","o","n","-","e","x","i","s","t","i","n","g"," ","s","c","r","i","p","t"," ","o","r"," ","i","n","v","a","l","i","d"," ","c","o","m","m","a","n","d"," ","o","n"," ","l","i","n","e"," ","1">>

\* the message holds a line that is a recommendation
HasRecommendationLine(message) ==
    LET ls == SplitOn(message, "\n")
    IN  \E i \in 1..Len(ls) : StartsWith(ls[i], <<"R","e","c","o","m","m","e","n","d","a","t","i","o","n",":">>)

\* C3 as stated: in the scenario the result is a failure whose message holds
\* the missing-script text for line 1 and a recommendation line; exit code 3.
C3_DailyScenarioWithRecommendation ==
    DailyScenario =>
        /\ ~result.success
        /\ Contains(result.message, MissingLine1Text)
        /\ HasRecommendationLine(result.message)
        /\ exitCode = 3

\* C3 amended: in the scenario the result is a failure whose message holds the
\* missing-script text for line 1 and, the token being an absolute path, no
\* recommendation line; what is printed is that message, and the exit code is 3.
C3_DailyScenarioNoRecommendation ==
    DailyScenario =>
        /\ ~result.success
        /\ Contains(result.message, MissingLine1Text)
        /\ ~HasRecommendationLine(result.message)
        /\ stdout = PrintLine(<<>>, result.message)
        /\ exitCode = 3

C3_Witness == DailyScenario /\ exitCode = 3 /\ Len(errors) = 1

\* the grammar of C4, read off the tokens of the line: a field is "*" or a
\* decimal number within its range
IsNumber(t) == t # <<>> /\ \A i \in 1..Len(t) : IsDigit(t[i])

FieldIn(t, lo, hi) == t = <<"*">> \/ (IsNumber(t) /\ NatOf(t) \in lo..hi)

StandardForm(line) ==
    LET toks == Split(line)
    IN  /\ Len(toks) >= 6
        /\ FieldIn(toks[1], 0, 59)
        /\ FieldIn(toks[2], 0, 59)
        /\ FieldIn(toks[3], 1, 31)
        /\ FieldIn(toks[4], 1, 12)
        /\ FieldIn(toks[5], 0, 6)

SpecialForm(line) ==
    LET toks == Split(line)
    IN  /\ Len(toks) >= 2
        /\ \E w \in Keywords : toks[1] = <<"@">> \o w

\* C4: for a trimmed, non-empty, non-comment line validate_crontab_line is
\* true if and only if the line is five fields within their ranges (minute
\* and hour 0-59, day 1-31, month 1-12, weekday 0-6, or "*") followed by a
\* command, or an @keyword followed by a command.
C4_MatcherIsTheGrammar ==
    probe.stage \in {"validated", "extracted", "token"} =>
        (probe.valid <=> (StandardForm(probe.line) \/ SpecialForm(probe.line)))

\* the numbers of a line's five fields are written without a leading zero
NoLeadingZero(line) ==
    \A i \in 1..5 :
        i <= Len(Split(line)) /\ Len(Split(line)[i]) > 1 => Split(line)[i][1] # "0"

\* C4 on the lines whose fields carry no leading zero: there the matcher and
\* the grammar agree (this locates the divergence, it settles no claim)
MatcherIsTheGrammarWithoutLeadingZeros ==
    (probe.stage \in {"validated", "extracted", "token"} /\ NoLeadingZero(probe.line)) =>
        (probe.valid <=> (StandardForm(probe.line) \/ SpecialForm(probe.line)))

\* C5: for a file that could be opened the result is a success with the
\* message "The crontab file is valid." if and only if no message was
\* accumulated; otherwise it is a failure whose message, cut at its
\* newlines, is the accumulated messages: all of them, once each, in order.
C5_ResultIsTheAccumulatedMessages ==
    (fileKind = "regular" /\ pc \in {"report", "done"}) =>
        /\ result.success <=> errors = <<>>
        /\ result.success <=> \A n \in 1..Len(lines) : MsgsOf(n) = {}
        /\ result.success => result.message = ValidMsg
        /\ ~result.success => SplitOn(result.message, "\n") = errors

C5_Witness ==
    /\ fileKind = "regular"
    /\ pc = "done"
    /\ ~result.success
    /\ Len(errors) >= 3

\* C6: with script checking on, every line that passed the syntax check and
\* whose command token is not absolute has a recommendation carrying its
\* line number and naming the token, whether or not the resolved path exists
\* or the token is a command of the search path.
C6_RelativeTokenIsRecommended ==
    \A n \in Checked :
        ~IsAbs(CommandToken(Trimmed(n))) =>
            \E i \in MsgsOfKind(n, "recommendation") :
                StartsWith(errors[i], RecPrefix \o CommandToken(Trimmed(n)) \o <<"'">>)

\* a relative script that exists, and a relative token whose error was
\* reported, both recommended in one run
C6_Witness ==
    /\ \E n \in Checked :
        /\ ~IsAbs(CommandToken(Trimmed(n)))
        /\ Exists(fs, resolve_path(CommandToken(Trimmed(n)), crontab_dir))
        /\ MsgsOfKind(n, "recommendation") # {}
    /\ \E n \in Checked :
        /\ MsgsOfKind(n, "missing") # {}
        /\ MsgsOfKind(n, "recommendation") # {}

\* C7: with script checking on, a line that passed the syntax check has the
\* "Non-existing script or invalid command" message if and only if its
\* resolved path does not exist and its token is no command of the search
\* path; the search path is consulted only when the resolved path does not
\* exist.
C7_MissingIffNeitherExistsNorCommand ==
    \A n \in Checked :
        LET token == CommandToken(Trimmed(n))
            resolved == resolve_path(token, crontab_dir)
        IN  /\ MsgsOfKind(n, "missing") # {}
                <=> (~Exists(fs, resolved) /\ ~Which(fs, token))
            /\ <<"is_unix_command", n>> \in calls => ~Exists(fs, resolved)
            /\ Exists(fs, resolved) => MsgsOfKind(n, "missing") = {}

\* one line valid by its existing path alone, the search path not consulted,
\* and one line valid by the search path alone
C7_Witness ==
    /\ \E n \in Checked :
        /\ Exists(fs, resolve_path(CommandToken(Trimmed(n)), crontab_dir))
        /\ ~Which(fs, CommandToken(Trimmed(n)))
        /\ <<"is_unix_command", n>> \notin calls
    /\ \E n \in Checked :
        /\ ~Exists(fs, resolve_path(CommandToken(Trimmed(n)), crontab_dir))
        /\ <<"is_unix_command", n>> \in calls
        /\ MsgsOfKind(n, "missing") = {}

\* C8: a non-blank, non-comment line that fails the syntax check adds exactly
\* one message, the syntax error with its line number and text, and no
\* helper is called for it, with or without script checking; the loop goes
\* on, so a run that leaves the loop has dealt with every line.
C8_SyntaxErrorShortCircuits ==
    /\ \A n \in Handled :
        ~validate_crontab_line(Trimmed(n)) =>
            /\ Cardinality(MsgsOf(n)) = 1
            /\ \A i \in MsgsOf(n) :
                /\ MsgKind(errors[i]) = "syntax"
                /\ Drop(errors[i], Len(SyntaxPrefix) + Len(Str(n)) + 3) = Trimmed(n)
            /\ \A c \in calls : c[2] # n
    /\ (fileKind = "regular" /\ pc \in {"report", "done"}) => line_no = Len(lines)

\* a syntax error on line 1 with script checking on, and line 2 checked after it
C8_Witness ==
    /\ check_scripts
    /\ 1 \in Handled
    /\ ~validate_crontab_line(Trimmed(1))
    /\ 2 \in Checked
    /\ \E c \in calls : c[2] = 2

\* C9: the line numbers the messages carry never decrease along the sequence,
\* each is the number of a physical line that is neither blank nor a comment,
\* and an error and a recommendation of one line are adjacent, the error first.
C9_MessagesInLineOrder ==
    /\ \A i \in 1..Len(errors) : MsgLine(errors[i]) \in Handled
    /\ \A i, j \in 1..Len(errors) : i < j => MsgLine(errors[i]) <= MsgLine(errors[j])
    /\ \A n \in 1..line_no :
        \A i \in MsgsOfKind(n, "missing"), j \in MsgsOfKind(n, "recommendation") : j = i + 1

\* a blank line or comment first, then a line with an error and a recommendation
C9_Witness ==
    /\ line_no = 2
    /\ IsSkipped(Trimmed(1))
    /\ MsgsOfKind(2, "missing") # {}
    /\ MsgsOfKind(2, "recommendation") # {}

\* C10: for a trimmed line the syntax check accepts, the schedule (five
\* fields, or one @keyword) is exactly the leading tokens of its split, a
\* further token remains, extract_command returns the remaining tokens, and
\* the first-token lookup on it raises nothing.
C10_ExtractedCommandHasAToken ==
    probe.stage \in {"extracted", "token"} =>
        LET toks == Split(probe.line)
            k == IF StartsWith(probe.line, <<"@">>) THEN 1 ELSE 5
        IN  /\ Len(toks) > k
            /\ IF k = 1 THEN \E w \in Keywords : toks[1] = <<"@">> \o w
                        ELSE \A i \in 1..5 : toks[i] = <<"*">> \/ IsNumber(toks[i])
            /\ Split(probe.command) = SubSeq(toks, k + 1, Len(toks))
            /\ Split(probe.command) # <<>>
            /\ probe.stage = "token" => (~probe.raised /\ probe.token = toks[k + 1])

\* a standard line with exactly one token after its five fields
C10_Witness ==
    /\ probe.stage = "token"
    /\ ~StartsWith(probe.line, <<"@">>)
    /\ Len(Split(probe.line)) = 6
    /\ probe.token = <<"r","u","n",".","s","h">>

=============================================================================
